---- MODULE Spec2Model ----
(***************************************************************************)
(* A model of the CHIP-8 interpreter core of chip8_emu (src/emu.rs) and of *)
(* the driver loop that calls it (src/main.rs).                            *)
(*                                                                         *)
(* The machine is the struct Emu.  Every public entry point (new, load,    *)
(* tick, tick_timers, keypress) is one action.  A Rust panic ends the      *)
(* process: the model records the panic in `fault`, keeps the fields as    *)
(* the panicking statement found them, and enables no further action.      *)
(* debug_assert! and arithmetic overflow checks exist only in a debug      *)
(* build; `debug_build` is chosen once and selects which of the two        *)
(* builds runs.                                                            *)
(***************************************************************************)
EXTENDS Integers, Sequences, FiniteSets, TLC

VARIABLES
    pc, ram, screen, v_reg, i_reg, sp, stack, keys, dt, st,
    debug_build, fault,
    last, op, op2, pre, pre2, fetch_reads, calls, matched, image, stored

\* The fields of struct Emu.
emu_vars == <<pc, ram, screen, v_reg, i_reg, sp, stack, keys, dt, st>>

vars == <<pc, ram, screen, v_reg, i_reg, sp, stack, keys, dt, st,
          debug_build, fault, last, op, op2, pre, pre2,
          fetch_reads, calls, matched, image, stored>>

----------------------------------------------------------------------------
\* crate::constants (the values the specification gives).

RAM_SIZE == 4096

SCREEN_WIDTH == 64

SCREEN_HEIGHT == 32

NUM_REGS == 16

NUM_KEYS == 16

STACK_SIZE == 16

START_ADDR == 512

FONTSET_SIZE == 80

\* The built-in hexadecimal glyphs, five bytes each.
FONTSET ==
    << 240, 144, 144, 144, 240,    32,  96,  32,  32, 112,
       240,  16, 240, 128, 240,   240,  16, 240,  16, 240,
       144, 144, 240,  16,  16,   240, 128, 240,  16, 240,
       240, 128, 240, 144, 240,   240,  16,  32,  64,  64,
       240, 144, 240, 144, 240,   240, 144, 240,  16, 240,
       240, 144, 240, 144, 144,   224, 144, 224, 144, 224,
       240, 128, 128, 128, 240,   224, 144, 144, 144, 224,
       240, 128, 240, 128, 240,   240, 128, 240, 128, 128 >>

----------------------------------------------------------------------------
\* Fixed-width arithmetic.

U8 == 256

U16 == 65536

\* Bit k of x.
Bit(x, k) == (x \div (2 ^ k)) % 2

\* x & y, x | y and x ^ y on 8-bit values.
BitAnd(x, y) ==
    LET b(k) == Bit(x, k) * Bit(y, k)
    IN  b(0) + 2*b(1) + 4*b(2) + 8*b(3) + 16*b(4) + 32*b(5) + 64*b(6) + 128*b(7)

BitOr(x, y) == x + y - BitAnd(x, y)

BitXor(x, y) == x + y - 2 * BitAnd(x, y)

----------------------------------------------------------------------------
\* Panics.  A fault is the panic message and, where the message carries one,
\* its argument.

NoFault == <<"none", 0>>

PcOutOfBounds == <<"program counter out of bounds!", 0>>

IndexOutOfBounds == <<"index out of bounds", 0>>

AddOverflow == <<"attempt to add with overflow", 0>>

SubOverflow == <<"attempt to subtract with overflow", 0>>

StackOverflowed == <<"stack pointer overflowed!", 0>>

StackUnderflowed == <<"stack pointer underflowed!", 0>>

BadScreenIndex == <<"incorrectly calculated screen index when drawing!", 0>>

NotYetImplemented == <<"not yet implemented", 0>>

Unimplemented(o) == <<"not implemented: Unimplemented opcode", o>>

\* The machine m stopped by a panic.
Panic(m, f) == [m EXCEPT !.fault = f]

Running(m) == m.fault = NoFault

----------------------------------------------------------------------------
\* struct Emu as a value: the fields, the panic that stopped it (if any) and
\* the addresses fetch has read in the current step.

Machine ==
    [ pc |-> pc, ram |-> ram, screen |-> screen, v_reg |-> v_reg,
      i_reg |-> i_reg, sp |-> sp, stack |-> stack, keys |-> keys,
      dt |-> dt, st |-> st, fault |-> fault, rd |-> {} ]

\* The fields alone.
Fields(m) ==
    <<m.pc, m.ram, m.screen, m.v_reg, m.i_reg, m.sp, m.stack, m.keys, m.dt, m.st>>

\* Default without the copy of the glyph table.
Default_fontless ==
    [ pc |-> START_ADDR,
      ram |-> [a \in 0 .. RAM_SIZE - 1 |-> 0],
      screen |-> [p \in 0 .. SCREEN_WIDTH * SCREEN_HEIGHT - 1 |-> FALSE],
      v_reg |-> [r \in 0 .. NUM_REGS - 1 |-> 0],
      i_reg |-> 0,
      sp |-> 0,
      stack |-> [s \in 0 .. STACK_SIZE - 1 |-> 0],
      keys |-> [k \in 0 .. NUM_KEYS - 1 |-> FALSE],
      dt |-> 0,
      st |-> 0,
      fault |-> NoFault,
      rd |-> {} ]

\* impl Default for Emu.
Default ==
    [ pc |-> START_ADDR,
      ram |-> [a \in 0 .. RAM_SIZE - 1 |->
                 IF a < FONTSET_SIZE THEN FONTSET[a + 1] ELSE 0],
      screen |-> [p \in 0 .. SCREEN_WIDTH * SCREEN_HEIGHT - 1 |-> FALSE],
      v_reg |-> [r \in 0 .. NUM_REGS - 1 |-> 0],
      i_reg |-> 0,
      sp |-> 0,
      stack |-> [s \in 0 .. STACK_SIZE - 1 |-> 0],
      keys |-> [k \in 0 .. NUM_KEYS - 1 |-> FALSE],
      dt |-> 0,
      st |-> 0,
      fault |-> NoFault,
      rd |-> {} ]

----------------------------------------------------------------------------
\* Emu::tick_timers.
tick_timers(m) ==
    LET m1 == IF m.dt > 0 THEN [m EXCEPT !.dt = m.dt - 1] ELSE m
    IN  IF m1.st = 1
        THEN Panic(m1, NotYetImplemented)
        ELSE IF m1.st > 0 THEN [m1 EXCEPT !.st = m1.st - 1] ELSE m1

\* Emu::fetch: the machine after the fetch and the instruction word.
fetch(m) ==
    IF debug_build /\ ~(m.pc < RAM_SIZE - 1)
    THEN [m |-> Panic(m, PcOutOfBounds), op |-> -1]
    ELSE IF m.pc >= RAM_SIZE
    THEN [m |-> Panic(m, IndexOutOfBounds), op |-> -1]
    ELSE IF m.pc + 1 >= RAM_SIZE
    THEN [m |-> Panic([m EXCEPT !.rd = {m.pc}], IndexOutOfBounds), op |-> -1]
    ELSE LET higher_byte == m.ram[m.pc]
             lower_byte == m.ram[m.pc + 1]
         IN  [m |-> [m EXCEPT !.rd = {m.pc, m.pc + 1}, !.pc = m.pc + 2],
              op |-> higher_byte * 256 + lower_byte]

\* Emu::push.
push(m, val) ==
    IF debug_build /\ ~(m.sp < STACK_SIZE)
    THEN Panic(m, StackOverflowed)
    ELSE IF m.sp >= STACK_SIZE
    THEN Panic(m, IndexOutOfBounds)
    ELSE [m EXCEPT !.stack[m.sp] = val, !.sp = m.sp + 1]

\* pop reading the slot before it moves the pointer.
pop_reads_before_decrement(m) ==
    IF debug_build /\ ~(m.sp > 0)
    THEN [m |-> Panic(m, StackUnderflowed), val |-> 0]
    ELSE LET new_sp == (m.sp - 1) % U16
             m1 == [m EXCEPT !.sp = new_sp]
         IN  IF new_sp >= STACK_SIZE
             THEN [m |-> Panic(m1, IndexOutOfBounds), val |-> 0]
             ELSE [m |-> m1, val |-> m.stack[m.sp % STACK_SIZE]]

\* Emu::pop: the machine after the pop and the value popped.
pop(m) ==
    IF debug_build /\ ~(m.sp > 0)
    THEN [m |-> Panic(m, StackUnderflowed), val |-> 0]
    ELSE LET new_sp == (m.sp - 1) % U16
             m1 == [m EXCEPT !.sp = new_sp]
         IN  IF new_sp >= STACK_SIZE
             THEN [m |-> Panic(m1, IndexOutOfBounds), val |-> 0]
             ELSE [m |-> m1, val |-> m1.stack[new_sp]]

----------------------------------------------------------------------------
\* Emu::execute, one operator per match arm.  x, y, n are nibbles[1..3],
\* nn = op & 0xFF and nnn = op & 0xFFF.

\* self.pc += 2
skip(m) ==
    IF m.pc + 2 >= U16
    THEN IF debug_build THEN Panic(m, AddOverflow)
         ELSE [m EXCEPT !.pc = (m.pc + 2) % U16]
    ELSE [m EXCEPT !.pc = m.pc + 2]

\* self.ram[addr] = val
store(m, addr, val) ==
    IF ~Running(m) THEN m
    ELSE IF addr >= RAM_SIZE THEN Panic(m, IndexOutOfBounds)
    ELSE [m EXCEPT !.ram[addr] = val]

\* 00E0 - clear screen
Op_00E0(m) ==
    [m EXCEPT !.screen = [p \in 0 .. SCREEN_WIDTH * SCREEN_HEIGHT - 1 |-> FALSE]]

\* 00EE - return from subroutine
Op_00EE(m) ==
    LET r == pop(m)
    IN  IF Running(r.m) THEN [r.m EXCEPT !.pc = r.val] ELSE r.m

\* 1NNN - jump
Op_1NNN(m, nnn) == [m EXCEPT !.pc = nnn]

\* 2NNN - call subroutine
Op_2NNN(m, nnn) ==
    LET m1 == push(m, m.pc)
    IN  IF Running(m1) THEN [m1 EXCEPT !.pc = nnn] ELSE m1

\* 3XNN - skip next if VX == NN
Op_3XNN(m, x, nn) == IF m.v_reg[x] = nn THEN skip(m) ELSE m

\* 4XNN - skip next if VX != NN
Op_4XNN(m, x, nn) == IF m.v_reg[x] # nn THEN skip(m) ELSE m

\* 5XY0 - skip next if VX == VY
Op_5XY0(m, x, y) == IF m.v_reg[x] = m.v_reg[y] THEN skip(m) ELSE m

\* 6XNN - VX = NN
Op_6XNN(m, x, nn) == [m EXCEPT !.v_reg[x] = nn]

\* 7XNN with a plain `+`: checked in a debug build.
Op_7XNN_checked(m, x, nn) ==
    IF debug_build /\ m.v_reg[x] + nn >= U8 THEN Panic(m, AddOverflow)
    ELSE [m EXCEPT !.v_reg[x] = (m.v_reg[x] + nn) % U8]

\* 7XNN - VX += NN (wrapping_add)
Op_7XNN(m, x, nn) == [m EXCEPT !.v_reg[x] = (m.v_reg[x] + nn) % U8]

\* 8XY0 - VX = VY
Op_8XY0(m, x, y) == [m EXCEPT !.v_reg[x] = m.v_reg[y]]

\* 8XY1 - VX |= VY
Op_8XY1(m, x, y) == [m EXCEPT !.v_reg[x] = BitOr(m.v_reg[x], m.v_reg[y])]

\* 8XY2 - VX &= VY
Op_8XY2(m, x, y) == [m EXCEPT !.v_reg[x] = BitAnd(m.v_reg[x], m.v_reg[y])]

\* 8XY3 - VX ^= VY
Op_8XY3(m, x, y) == [m EXCEPT !.v_reg[x] = BitXor(m.v_reg[x], m.v_reg[y])]

\* 8XY4 writing the flag first and the sum second.
Op_8XY4_flag_first(m, x, y) ==
    LET sum == m.v_reg[x] + m.v_reg[y]
        new_vx == sum % U8
        new_vf == IF sum >= U8 THEN 1 ELSE 0
        m1 == [m EXCEPT !.v_reg[15] = new_vf]
    IN  [m1 EXCEPT !.v_reg[x] = new_vx]

\* 8XY4 - VX += VY, VF = carry.  VX is written first, VF second.
Op_8XY4(m, x, y) ==
    LET sum == m.v_reg[x] + m.v_reg[y]
        new_vx == sum % U8
        new_vf == IF sum >= U8 THEN 1 ELSE 0
        m1 == [m EXCEPT !.v_reg[x] = new_vx]
    IN  [m1 EXCEPT !.v_reg[15] = new_vf]

\* 8XY5 reporting a borrow when VX = VY.
Op_8XY5_strict(m, x, y) ==
    LET diff == m.v_reg[x] - m.v_reg[y]
        new_vx == diff % U8
        new_vf == IF diff <= 0 THEN 0 ELSE 1
        m1 == [m EXCEPT !.v_reg[x] = new_vx]
    IN  [m1 EXCEPT !.v_reg[15] = new_vf]

\* 8XY5 - VX -= VY, VF = no borrow
Op_8XY5(m, x, y) ==
    LET diff == m.v_reg[x] - m.v_reg[y]
        new_vx == diff % U8
        new_vf == IF diff < 0 THEN 0 ELSE 1
        m1 == [m EXCEPT !.v_reg[x] = new_vx]
    IN  [m1 EXCEPT !.v_reg[15] = new_vf]

\* 8XY6 taking the flag from the register after the shift.
Op_8XY6_flag_after(m, x) ==
    LET m1 == [m EXCEPT !.v_reg[x] = m.v_reg[x] \div 2]
        lsb == m1.v_reg[x] % 2
    IN  [m1 EXCEPT !.v_reg[15] = lsb]

\* 8XY6 - VX >>= 1, VF = the bit shifted out
Op_8XY6(m, x) ==
    LET lsb == m.v_reg[x] % 2
        m1 == [m EXCEPT !.v_reg[x] = m.v_reg[x] \div 2]
    IN  [m1 EXCEPT !.v_reg[15] = lsb]

\* 8XY7 - VX = VY - VX, VF = no borrow
Op_8XY7(m, x, y) ==
    LET diff == m.v_reg[y] - m.v_reg[x]
        new_vx == diff % U8
        new_vf == IF diff < 0 THEN 0 ELSE 1
        m1 == [m EXCEPT !.v_reg[x] = new_vx]
    IN  [m1 EXCEPT !.v_reg[15] = new_vf]

\* 8XYE - VX <<= 1, VF = the bit shifted out
Op_8XYE(m, x) ==
    LET msb == (m.v_reg[x] \div 128) % 2
        m1 == [m EXCEPT !.v_reg[x] = (m.v_reg[x] * 2) % U8]
    IN  [m1 EXCEPT !.v_reg[15] = msb]

\* 9XY0 - skip next if VX != VY
Op_9XY0(m, x, y) == IF m.v_reg[x] # m.v_reg[y] THEN skip(m) ELSE m

\* ANNN - I = NNN
Op_ANNN(m, nnn) == [m EXCEPT !.i_reg = nnn]

\* BNNN - jump to V0 + NNN
Op_BNNN(m, nnn) == [m EXCEPT !.pc = m.v_reg[0] + nnn]

\* CXNN without the mask.
Op_CXNN_unmasked(m, x, nn, rng) == [m EXCEPT !.v_reg[x] = rng]

\* CXNN - VX = rand() & NN
Op_CXNN(m, x, nn, rng) == [m EXCEPT !.v_reg[x] = BitAnd(rng, nn)]

----------------------------------------------------------------------------
\* DXYN - draw sprite.  d carries the machine and the local pixel_unset.

\* (a + b) on u8 operands: a panic in a debug build, wrapped otherwise.
AddU8Overflows(a, b) == debug_build /\ a + b >= U8

\* The pixel write setting the cell instead of toggling it.
DrawPixel_sets(d, sprite_pixel_row, x_coord, y_coord, row, col) ==
    LET sprite_pixel == Bit(sprite_pixel_row, col)
        screen_x == ((x_coord + row) % U8) % SCREEN_WIDTH
        screen_y == ((y_coord + col) % U8) % SCREEN_HEIGHT
        screen_idx == SCREEN_WIDTH * screen_y + screen_x
    IN  IF sprite_pixel # 1 THEN d
        ELSE IF AddU8Overflows(x_coord, row) \/ AddU8Overflows(y_coord, col)
        THEN [d EXCEPT !.m = Panic(d.m, AddOverflow)]
        ELSE IF debug_build /\ ~(screen_idx < SCREEN_HEIGHT * SCREEN_HEIGHT)
        THEN [d EXCEPT !.m = Panic(d.m, BadScreenIndex)]
        ELSE [ m |-> [d.m EXCEPT !.screen[screen_idx] = TRUE],
               unset |-> d.unset \/ d.m.screen[screen_idx] ]

\* The body of `for col in 0..8` for one col of one row.
DrawPixel(d, sprite_pixel_row, x_coord, y_coord, row, col) ==
    LET sprite_pixel == Bit(sprite_pixel_row, col)
        screen_x == ((x_coord + row) % U8) % SCREEN_WIDTH
        screen_y == ((y_coord + col) % U8) % SCREEN_HEIGHT
        screen_idx == SCREEN_WIDTH * screen_y + screen_x
    IN  IF sprite_pixel # 1 THEN d
        ELSE IF AddU8Overflows(x_coord, row) \/ AddU8Overflows(y_coord, col)
        THEN [d EXCEPT !.m = Panic(d.m, AddOverflow)]
        ELSE IF debug_build /\ ~(screen_idx < SCREEN_HEIGHT * SCREEN_HEIGHT)
        THEN [d EXCEPT !.m = Panic(d.m, BadScreenIndex)]
        ELSE [ m |-> [d.m EXCEPT !.screen[screen_idx] = ~d.m.screen[screen_idx]],
               unset |-> d.unset \/ d.m.screen[screen_idx] ]

\* `for col in 0..8` from col on.
RECURSIVE DrawCols(_, _, _, _, _, _)
DrawCols(d, sprite_pixel_row, x_coord, y_coord, row, col) ==
    IF col >= 8 \/ ~Running(d.m) THEN d
    ELSE DrawCols(DrawPixel(d, sprite_pixel_row, x_coord, y_coord, row, col),
                  sprite_pixel_row, x_coord, y_coord, row, col + 1)

\* `for row in 0..n` from row on.
RECURSIVE DrawRows(_, _, _, _, _)
DrawRows(d, x_coord, y_coord, n, row) ==
    IF row >= n \/ ~Running(d.m) THEN d
    ELSE IF d.m.i_reg + row >= U16 /\ debug_build
    THEN [d EXCEPT !.m = Panic(d.m, AddOverflow)]
    ELSE LET address == (d.m.i_reg + row) % U16
         IN  IF address >= RAM_SIZE
             THEN [d EXCEPT !.m = Panic(d.m, IndexOutOfBounds)]
             ELSE DrawRows(DrawCols(d, d.m.ram[address], x_coord, y_coord, row, 0),
                           x_coord, y_coord, n, row + 1)

Op_DXYN(m, x, y, n) ==
    LET x_coord == m.v_reg[x]
        y_coord == m.v_reg[y]
        d == DrawRows([m |-> m, unset |-> FALSE], x_coord, y_coord, n, 0)
    IN  IF Running(d.m)
        THEN [d.m EXCEPT !.v_reg[15] = IF d.unset THEN 1 ELSE 0]
        ELSE d.m

----------------------------------------------------------------------------
\* self.keys[vx as usize]
KeyIndexed(m, vx) == IF vx >= NUM_KEYS THEN Panic(m, IndexOutOfBounds) ELSE m

\* EX9E - skip if key pressed
Op_EX9E(m, x) ==
    LET vx == m.v_reg[x]
        m1 == KeyIndexed(m, vx)
    IN  IF ~Running(m1) THEN m1
        ELSE IF m.keys[vx] THEN skip(m) ELSE m

\* EXA1 - skip if key not pressed
Op_EXA1(m, x) ==
    LET vx == m.v_reg[x]
        m1 == KeyIndexed(m, vx)
    IN  IF ~Running(m1) THEN m1
        ELSE IF ~m.keys[vx] THEN skip(m) ELSE m

\* FX07 - VX = DT
Op_FX07(m, x) == [m EXCEPT !.v_reg[x] = m.dt]

\* The highest pressed index instead of the lowest.
position_last(ks) ==
    IF \E k \in DOMAIN ks : ks[k]
    THEN CHOOSE k \in DOMAIN ks : ks[k] /\ \A j \in DOMAIN ks : ks[j] => k >= j
    ELSE -1

\* self.keys.iter().position(|&key| key): the lowest pressed index, or -1
\* for None.
position(ks) ==
    IF \E k \in DOMAIN ks : ks[k]
    THEN CHOOSE k \in DOMAIN ks : ks[k] /\ \A j \in DOMAIN ks : ks[j] => k <= j
    ELSE -1

\* FX0A releasing the key it took.
Op_FX0A_consumes(m, x) ==
    LET found == position(m.keys)
    IN  IF found >= 0
        THEN [m EXCEPT !.v_reg[x] = found, !.keys[found] = FALSE]
        ELSE IF m.pc - 2 < 0
             THEN IF debug_build THEN Panic(m, SubOverflow)
                  ELSE [m EXCEPT !.pc = (m.pc - 2) % U16]
             ELSE [m EXCEPT !.pc = m.pc - 2]

\* FX0A leaving PC past the instruction when no key is pressed.
Op_FX0A_no_rewind(m, x) ==
    LET found == position(m.keys)
    IN  IF found >= 0 THEN [m EXCEPT !.v_reg[x] = found] ELSE m

\* FX0A - wait until key pressed
Op_FX0A(m, x) ==
    LET found == position(m.keys)
    IN  IF found >= 0
        THEN [m EXCEPT !.v_reg[x] = found]
        ELSE IF m.pc - 2 < 0
             THEN IF debug_build THEN Panic(m, SubOverflow)
                  ELSE [m EXCEPT !.pc = (m.pc - 2) % U16]
             ELSE [m EXCEPT !.pc = m.pc - 2]

\* FX15 - DT = VX
Op_FX15(m, x) == [m EXCEPT !.dt = m.v_reg[x]]

\* FX18 - ST = VX
Op_FX18(m, x) == [m EXCEPT !.st = m.v_reg[x]]

\* FX1E - I += VX (wrapping_add)
Op_FX1E(m, x) == [m EXCEPT !.i_reg = (m.i_reg + m.v_reg[x]) % U16]

\* FX29 - set I to font address
Op_FX29(m, x) == [m EXCEPT !.i_reg = m.v_reg[x] * 5]

\* FX33 - BCD of VX at I, I+1, I+2
Op_FX33(m, x) ==
    LET vx == m.v_reg[x]
        ones == vx % 10
        tens == (vx \div 10) % 10
        hundreds == vx \div 100
    IN  store(store(store(m, m.i_reg, hundreds), m.i_reg + 1, tens),
              m.i_reg + 2, ones)

\* FX55 - `for idx in 0..=x` from idx on: ram[i + idx] = v_reg[idx]
RECURSIVE StoreRegs(_, _, _)
StoreRegs(m, x, idx) ==
    IF idx > x \/ ~Running(m) THEN m
    ELSE StoreRegs(store(m, m.i_reg + idx, m.v_reg[idx]), x, idx + 1)

\* FX55 with the exclusive range 0..x.
Op_FX55_exclusive(m, x) == IF x = 0 THEN m ELSE StoreRegs(m, x - 1, 0)

Op_FX55(m, x) == StoreRegs(m, x, 0)

\* FX65 - `for idx in 0..=x` from idx on: v_reg[idx] = ram[i + idx]
RECURSIVE LoadRegs(_, _, _)
LoadRegs(m, x, idx) ==
    IF idx > x \/ ~Running(m) THEN m
    ELSE IF m.i_reg + idx >= RAM_SIZE THEN Panic(m, IndexOutOfBounds)
    ELSE LoadRegs([m EXCEPT !.v_reg[idx] = m.ram[m.i_reg + idx]], x, idx + 1)

Op_FX65(m, x) == LoadRegs(m, x, 0)

----------------------------------------------------------------------------
\* The catch-all arm doing nothing.
UnknownOpcode_ignored(m, o) == m

\* [_, _, _, _] => unimplemented!("Unimplemented opcode: {op}")
UnknownOpcode(m, o) == Panic(m, Unimplemented(o))

\* Emu::execute: the nibble split and the match, arm by arm in source order.
execute(m, o, rng) ==
    LET n0 == (o \div 4096) % 16
        x == (o \div 256) % 16
        y == (o \div 16) % 16
        n == o % 16
        nn == o % 256
        nnn == o % 4096
    IN  IF o = 0 THEN m
        ELSE IF n0 = 0 /\ x = 0 /\ y = 14 /\ n = 0 THEN Op_00E0(m)
        ELSE IF n0 = 0 /\ x = 0 /\ y = 14 /\ n = 14 THEN Op_00EE(m)
        ELSE IF n0 = 1 THEN Op_1NNN(m, nnn)
        ELSE IF n0 = 2 THEN Op_2NNN(m, nnn)
        ELSE IF n0 = 3 THEN Op_3XNN(m, x, nn)
        ELSE IF n0 = 4 THEN Op_4XNN(m, x, nn)
        ELSE IF n0 = 5 /\ n = 0 THEN Op_5XY0(m, x, y)
        ELSE IF n0 = 6 THEN Op_6XNN(m, x, nn)
        ELSE IF n0 = 7 THEN Op_7XNN(m, x, nn)
        ELSE IF n0 = 8 /\ n = 0 THEN Op_8XY0(m, x, y)
        ELSE IF n0 = 8 /\ n = 1 THEN Op_8XY1(m, x, y)
        ELSE IF n0 = 8 /\ n = 2 THEN Op_8XY2(m, x, y)
        ELSE IF n0 = 8 /\ n = 3 THEN Op_8XY3(m, x, y)
        ELSE IF n0 = 8 /\ n = 4 THEN Op_8XY4(m, x, y)
        ELSE IF n0 = 8 /\ n = 5 THEN Op_8XY5(m, x, y)
        ELSE IF n0 = 8 /\ n = 6 THEN Op_8XY6(m, x)
        ELSE IF n0 = 8 /\ n = 7 THEN Op_8XY7(m, x, y)
        ELSE IF n0 = 8 /\ n = 14 THEN Op_8XYE(m, x)
        ELSE IF n0 = 9 /\ n = 0 THEN Op_9XY0(m, x, y)
        ELSE IF n0 = 10 THEN Op_ANNN(m, nnn)
        ELSE IF n0 = 11 THEN Op_BNNN(m, nnn)
        ELSE IF n0 = 12 THEN Op_CXNN(m, x, nn, rng)
        ELSE IF n0 = 13 THEN Op_DXYN(m, x, y, n)
        ELSE IF n0 = 14 /\ y = 9 /\ n = 14 THEN Op_EX9E(m, x)
        ELSE IF n0 = 14 /\ y = 10 /\ n = 1 THEN Op_EXA1(m, x)
        ELSE IF n0 = 15 /\ y = 0 /\ n = 7 THEN Op_FX07(m, x)
        ELSE IF n0 = 15 /\ y = 0 /\ n = 10 THEN Op_FX0A(m, x)
        ELSE IF n0 = 15 /\ y = 1 /\ n = 5 THEN Op_FX15(m, x)
        ELSE IF n0 = 15 /\ y = 1 /\ n = 8 THEN Op_FX18(m, x)
        ELSE IF n0 = 15 /\ y = 1 /\ n = 14 THEN Op_FX1E(m, x)
        ELSE IF n0 = 15 /\ y = 2 /\ n = 9 THEN Op_FX29(m, x)
        ELSE IF n0 = 15 /\ y = 3 /\ n = 3 THEN Op_FX33(m, x)
        ELSE IF n0 = 15 /\ y = 5 /\ n = 5 THEN Op_FX55(m, x)
        ELSE IF n0 = 15 /\ y = 6 /\ n = 5 THEN Op_FX65(m, x)
        ELSE UnknownOpcode(m, o)

\* Emu::tick: the machine after the step and the word it fetched (-1 when
\* the fetch panicked).
tick(m, rng) ==
    LET f == fetch(m)
    IN  IF Running(f.m)
        THEN [m |-> execute(f.m, f.op, rng), op |-> f.op]
        ELSE [m |-> f.m, op |-> -1]

\* Emu::load: a bulk copy of the image to START_ADDR; an image that does not
\* fit is an out-of-bounds fault.
load(m, data) ==
    IF START_ADDR + Len(data) > RAM_SIZE
    THEN Panic(m, IndexOutOfBounds)
    ELSE [m EXCEPT !.ram = [a \in 0 .. RAM_SIZE - 1 |->
                              IF a >= START_ADDR /\ a < START_ADDR + Len(data)
                              THEN data[a - START_ADDR + 1]
                              ELSE m.ram[a]]]

\* Emu::keypress, called by main on KeyDown (pressed) and KeyUp (released).
keypress(m, idx, pressed) == [m EXCEPT !.keys[idx] = pressed]

\* key_to_button: the pad slots the keyboard maps to.
Buttons == {1, 2, 3, 12, 4, 5, 6, 13, 7, 8, 9, 14, 10, 0, 11, 15}

----------------------------------------------------------------------------
\* Program images.  An image is a sequence of instruction words, stored
\* big-endian, two bytes a word.

\* The word with nibbles a, b, c, d.
W(a, b, c, d) == a * 4096 + b * 256 + c * 16 + d

\* The word with first nibble a and 12-bit operand nnn.
WN(a, nnn) == a * 4096 + nnn

\* The word with nibbles a, x and byte nn.
WB(a, x, nn) == a * 4096 + x * 256 + nn

Bytes(words) ==
    [i \in 1 .. 2 * Len(words) |->
        IF i % 2 = 1 THEN words[(i + 1) \div 2] \div 256
        ELSE words[i \div 2] % 256]

\* Deepest chain of nested calls the call-chain images build.
MaxNest == 16

\* Largest value the timer images put in DT and ST.
MaxTimer == 3

\* The keyboard events of a run press and release pad keys 1 .. MaxPadKey.
MaxPadKey == 2

RET == W(0, 0, 14, 14)

\* words followed by a jump to itself, so that the run stays in the image.
Ended(words) == Append(words, WN(1, START_ADDR + 2 * Len(words)))

\* n nested subroutines: subroutine k is at START_ADDR + 4k, calls
\* subroutine k+1 and returns; subroutine n only returns.
CallChain(n) ==
    [i \in 1 .. 2 * n + 1 |->
        IF i % 2 = 1 /\ i < 2 * n + 1
        THEN WN(2, START_ADDR + 2 * (i + 1))
        ELSE RET]

\* Images that end in a panic: unknown words, runaway jumps, stack and
\* memory bounds.
FaultPrograms ==
    { <<W(0, 0, 0, 1)>>, <<W(5, 0, 1, 1)>>, <<W(8, 0, 1, 8)>>,
      <<W(14, 0, 0, 0)>>, <<W(15, 0, 15, 15)>>,
      <<WN(1, 4095)>>, <<WN(1, 4094)>>, <<WN(1, 4096)>>,
      <<WB(6, 0, 255), WN(11, 4095)>>, <<WB(6, 0, 1), WN(11, 4094)>>,
      <<WN(2, START_ADDR)>>,
      <<RET>>,
      <<WN(10, 4095), WB(6, 0, 255), W(15, 0, 3, 3)>>,
      <<WN(10, 4094), WB(6, 0, 255), WB(6, 1, 1), W(15, 2, 5, 5)>>,
      <<WN(10, 4094), W(15, 2, 6, 5)>>,
      <<WB(6, 0, 255), WN(10, 4094), W(15, 0, 5, 5), W(13, 1, 1, 3)>> }


\* Images that set the timers and read DT back.
TimerPrograms ==
    { Ended(<<WB(6, 0, a), W(15, 0, 1, 5), WB(6, 1, b), W(15, 1, 1, 8),
              W(15, 2, 0, 7)>>) :
      a \in 0 .. MaxTimer, b \in 0 .. MaxTimer }

\* Images that read the keypad: V5 := 9, wait for a key into V5, then test
\* key V1 = k both ways (k = 16 is no key slot); and a wait in a loop.
KeyPrograms ==
    { Ended(<<WB(6, 5, 9), W(15, 5, 0, 10), WB(6, 1, k), W(14, 1, 9, 14),
              W(14, 1, 10, 1), 0, 0>>) :
      k \in {0, 1, 15, 16} }
      \cup { <<W(15, 5, 0, 10), WN(1, START_ADDR)>> }

\* Images that wait for a key: V5 := 9, then the wait; and a wait in a loop.
WaitPrograms ==
    { Ended(<<WB(6, 5, 9), W(15, 5, 0, 10)>>),
      <<W(15, 5, 0, 10), WN(1, START_ADDR)>> }

\* A straight-line image over the remaining instructions.
MiscPrograms ==
    { Ended(<<WB(6, 0, 5), WB(3, 0, 5), 0, WB(4, 0, 5), WB(6, 1, 7),
              W(5, 0, 1, 0), W(9, 0, 1, 0), 0, WN(10, 10), W(15, 1, 1, 14),
              W(15, 0, 2, 9), W(13, 0, 1, 5), WB(12, 2, 3), W(0, 0, 14, 0),
              WB(7, 1, 250), W(8, 0, 1, 0), W(15, 1, 3, 3), W(15, 1, 6, 5)>>) }

\* Operands of the arithmetic images: the values within MaxOperand of both
\* ends of a byte, and the sign bit.
MaxOperand == 1

AluVals == (0 .. MaxOperand) \cup {128} \cup (U8 - 1 - MaxOperand .. U8 - 1)

\* The register pairs (X, Y) of the arithmetic images: distinct, equal, and
\* each with VF as X, as Y and as both.
AluRegs == { <<0, 1>>, <<1, 1>>, <<15, 1>>, <<1, 15>>, <<15, 15>> }

\* The arithmetic instructions 8XYk that write VF.
AluKinds == {4, 5, 6, 7, 14}

\* VX := a; VY := b; 8XYk.
AluPrograms ==
    { Ended(<<WB(6, xy[1], a), WB(6, xy[2], b), W(8, xy[1], xy[2], k)>>) :
      xy \in AluRegs, a \in AluVals, b \in AluVals, k \in AluKinds }

\* VF := f; VX := a; 7XNN, with X a plain register and X = 0xF.
AddPrograms ==
    { Ended(<<WB(6, 15, f), WB(6, x, a), WB(7, x, nn)>>) :
      f \in {0, 1}, x \in {0, 15}, a \in AluVals, nn \in AluVals }

\* Largest second nibble of the words of family 0 in the decoding images.
MaxDecodeX == 1

\* The words the decoding images try: every third and fourth nibble in the
\* families told apart by both (0, E, F; family 0 also by its second
\* nibble), every fourth nibble in the families told apart by it (5, 8, 9),
\* and a few operands in the families decoded by the first nibble alone.
DecodeWords ==
    { W(0, x, c, d) : x \in 0 .. MaxDecodeX, c \in 0 .. 15, d \in 0 .. 15 }
      \cup { W(a, 0, c, d) : a \in {14, 15}, c \in 0 .. 15, d \in 0 .. 15 }
      \cup { W(a, 0, c, d) : a \in {5, 8, 9}, c \in {0, 1}, d \in 0 .. 15 }
      \cup { WN(a, START_ADDR + 2) : a \in {1, 2, 10, 11} }
      \cup { WB(a, 1, nn) : a \in {3, 4, 6, 7, 12, 13}, nn \in {0, 1} }

\* One word, then a jump to itself at each of the two places the word can
\* leave PC.
DecodePrograms ==
    { <<w, WN(1, START_ADDR + 2), WN(1, START_ADDR + 4)>> : w \in DecodeWords }

\* Largest X of the register-copy images, beside X = 0xF.
MaxStoreX == 1

\* V0 := a; VX := b; I := i; FX55; V0, VX and VE := 7; FX65.  I is in the
\* glyph table, in free memory, or puts VX in the last byte of memory.
StorePrograms ==
    { Ended(<<WB(6, 0, a), WB(6, x, b), WN(10, i), W(15, x, 5, 5),
              WB(6, 0, 7), WB(6, x, 7), WB(6, 14, 7), W(15, x, 6, 5)>>) :
      x \in (0 .. MaxStoreX) \cup {15}, a \in {1, 255}, b \in {1, 255},
      i \in {0, 768} }
      \cup { Ended(<<WB(6, 0, 1), WB(6, x, 255), WN(10, RAM_SIZE - 1 - x),
                     W(15, x, 5, 5), WB(6, 0, 7), WB(6, x, 7), WB(6, 14, 7),
                     W(15, x, 6, 5)>>) :
              x \in (0 .. MaxStoreX) \cup {15} }

\* Anchors and sprites of the drawing images.
DrawXs == {0, 62, 255}

DrawYs == {0, 12, 30, 250}

DrawHeights == {1, 5, 15}

\* The optional first sprite (glyph 0, five rows) drawn under the anchor.
Under(x, u) == IF u THEN <<WN(10, 0), W(13, x, 1, 5)>> ELSE <<>>

\* VX := vx; V1 := vy; the optional first sprite; then the sprite at i,
\* n rows, drawn twice at (VX, V1), where X is 0 or 15.
DrawPrograms ==
    { Ended(<<WB(6, x, vx), WB(6, 1, vy)>> \o Under(x, u)
              \o <<WN(10, i), W(13, x, 1, n), W(13, x, 1, n)>>) :
      x \in {0, 15}, vx \in DrawXs, vy \in DrawYs, n \in DrawHeights,
      i \in {0, 5, 70}, u \in BOOLEAN }

\* The largest image that fits, RAM_SIZE - START_ADDR bytes: a jump to
\* itself and 0xFFFF up to the last word of memory.
FullImage ==
    [i \in 1 .. (RAM_SIZE - START_ADDR) \div 2 |->
        IF i = 1 THEN WN(1, START_ADDR) ELSE U16 - 1]

ControlPrograms ==
    FaultPrograms \cup MiscPrograms \cup { CallChain(n) : n \in 1 .. MaxNest }
      \cup {FullImage}

----------------------------------------------------------------------------
\* The state machine.

\* The fields of an instruction word.
NibX(o) == (o \div 256) % 16

NibY(o) == (o \div 16) % 16

NibN(o) == o % 16

\* FX55: nibbles [0xF, _, 5, 5].
IsStore(o) == o \div 4096 = 15 /\ o % 256 = 85

NoCall == [site |-> -1, sp0 |-> -1]

NoStore == [x |-> -1, i |-> 0, v |-> Default.v_reg, mem |-> <<>>]

\* Emu::new().  The build (debug or release) is fixed for the run.
Init ==
    /\ debug_build \in BOOLEAN
    /\ pc = Default.pc /\ ram = Default.ram /\ screen = Default.screen
    /\ v_reg = Default.v_reg /\ i_reg = Default.i_reg
    /\ sp = Default.sp /\ stack = Default.stack /\ keys = Default.keys
    /\ dt = Default.dt /\ st = Default.st
    /\ fault = NoFault
    /\ last = "new" /\ op = -1 /\ op2 = -1 /\ pre = Default /\ pre2 = Default
    /\ fetch_reads = {} /\ calls = <<>> /\ matched = NoCall
    /\ image = <<>> /\ stored = NoStore

\* The fields and the panic become those of m.
Becomes(m) ==
    /\ pc' = m.pc /\ ram' = m.ram /\ screen' = m.screen
    /\ v_reg' = m.v_reg /\ i_reg' = m.i_reg
    /\ sp' = m.sp /\ stack' = m.stack /\ keys' = m.keys
    /\ dt' = m.dt /\ st' = m.st
    /\ fault' = m.fault

\* main is in its game loop: the image is loaded and nothing has panicked.
InLoop == last # "new" /\ fault = NoFault

\* last names the last operation and pre is the machine before it; op is
\* the word it fetched (-1 when it was no step or fetched none).  When the
\* last two operations were both steps, pre2 and op2 are the same for the
\* first of them; otherwise they hold nothing (pre2 = pre, op2 = -1).
Did(name) ==
    /\ last' = name
    /\ pre' = Machine
    /\ pre2' = IF name = "tick" /\ last = "tick" THEN pre ELSE Machine
    /\ op2' = IF name = "tick" /\ last = "tick" THEN op ELSE -1

\* create_and_load_emulator: emu.load(&data) on the fresh machine.  image
\* is the image read, as words.
Load(suite) ==
    /\ last = "new"
    /\ \E words \in suite :
         /\ Becomes(load(Machine, Bytes(words)))
         /\ image' = words
    /\ Did("load") /\ op' = -1
    /\ UNCHANGED <<debug_build, fetch_reads, calls, matched, stored>>

\* The random byte CXNN draws, when the next word is a CXNN.
RandomBytes ==
    IF pc + 1 < RAM_SIZE /\ ram[pc] \div 16 = 12 THEN 0 .. U8 - 1 ELSE {0}

\* emu.tick().  calls shadows the call stack: a completed 2NNN pushes the
\* address of the call instruction and the stack pointer before it, a
\* completed 00EE pops the entry it returns from into matched.  stored is
\* the latest completed FX55: its X, the I and the registers it found and
\* the bytes memory[I .. I+X] held after it.
Tick ==
    /\ InLoop
    /\ \E rng \in RandomBytes :
         LET r == tick(Machine, rng)
             done == Running(r.m)
             is_call == r.op \div 4096 = 2
             is_ret == r.op = RET
         IN  /\ Becomes(r.m)
             /\ op' = r.op
             /\ fetch_reads' = r.m.rd
             /\ calls' = IF done /\ is_call
                         THEN Append(calls, [site |-> pc, sp0 |-> sp])
                         ELSE IF done /\ is_ret /\ calls # <<>>
                         THEN SubSeq(calls, 1, Len(calls) - 1)
                         ELSE calls
             /\ matched' = IF done /\ is_ret /\ calls # <<>>
                           THEN calls[Len(calls)]
                           ELSE NoCall
             /\ stored' = IF done /\ IsStore(r.op)
                          THEN [ x |-> NibX(r.op), i |-> i_reg, v |-> v_reg,
                                 mem |-> [k \in 1 .. NibX(r.op) + 1 |->
                                            r.m.ram[i_reg + k - 1]] ]
                          ELSE stored
    /\ Did("tick")
    /\ UNCHANGED <<debug_build, image>>

\* emu.tick_timers().
TickTimers ==
    /\ InLoop
    /\ Becomes(tick_timers(Machine))
    /\ Did("tick_timers") /\ op' = -1
    /\ UNCHANGED <<debug_build, fetch_reads, calls, matched, image, stored>>

\* A KeyDown or KeyUp event of a mapped key: emu.keypress(k, pressed).
Keypress ==
    /\ InLoop
    /\ \E k \in Buttons \cap (1 .. MaxPadKey), pressed \in BOOLEAN :
         /\ keys[k] # pressed
         /\ Becomes(keypress(Machine, k, pressed))
    /\ Did("keypress") /\ op' = -1
    /\ UNCHANGED <<debug_build, fetch_reads, calls, matched, image, stored>>

\* The driver with its keyboard: images that read the keypad, and the
\* straight-line image.
Next == Load(KeyPrograms \cup MiscPrograms) \/ Tick \/ TickTimers \/ Keypress

Spec == Init /\ [][Next]_vars

\* Waiting for a key: steps and keyboard events, in a loop that never
\* stops calling tick().
NextWait == Load(WaitPrograms) \/ Tick \/ Keypress

SpecWait == Init /\ [][NextWait]_vars /\ WF_vars(Tick)

\* Control flow, the call stack and the fatal conditions.
NextControl == Load(ControlPrograms) \/ Tick

SpecControl == Init /\ [][NextControl]_vars

\* The timers.
NextTimers == Load(TimerPrograms) \/ Tick \/ TickTimers

SpecTimers == Init /\ [][NextTimers]_vars

\* The arithmetic instructions, each on operands set by the image.
NextAlu == Load(AluPrograms \cup AddPrograms) \/ Tick

SpecAlu == Init /\ [][NextAlu]_vars

\* Sprite drawing.
NextDraw == Load(DrawPrograms) \/ Tick

SpecDraw == Init /\ [][NextDraw]_vars

\* Decoding: one word of every kind.
NextDecode == Load(DecodePrograms) \/ Tick

SpecDecode == Init /\ [][NextDecode]_vars

\* The register copies to and from memory.
NextStore == Load(StorePrograms) \/ Tick

SpecStore == Init /\ [][NextStore]_vars

----------------------------------------------------------------------------
\* Properties.

\* The instruction word at m's program counter (-1 outside memory).
WordAt(m) ==
    IF m.pc + 1 < RAM_SIZE THEN m.ram[m.pc] * 256 + m.ram[m.pc + 1] ELSE -1

IsCall(o) == o \div 4096 = 2

Stepped == last = "tick"

Completed == Stepped /\ fault = NoFault

Faulted == Stepped /\ fault # NoFault

\* C1: every tick_timers call runs to completion and leaves
\* DT' = max(DT - 1, 0) and ST' = max(ST - 1, 0); in particular ST = 1
\* becomes ST = 0.
C1_TimersSaturate ==
    last = "tick_timers" =>
        /\ fault = NoFault
        /\ dt = (IF pre.dt > 0 THEN pre.dt - 1 ELSE 0)
        /\ st = (IF pre.st > 0 THEN pre.st - 1 ELSE 0)

\* C2: a step that ends in a fault leaves every field of the machine as it
\* was before the step began.
C2_FaultAtomic == Faulted => Fields(Machine) = Fields(pre)

\* C3: a step begun with PC >= RAM_SIZE - 1 faults without reading a memory
\* byte and without advancing PC; a step that completes fetched PC and PC+1,
\* both inside memory.
C3_FetchInBounds ==
    Stepped =>
        /\ pre.pc >= RAM_SIZE - 1 =>
              fault # NoFault /\ fetch_reads = {} /\ pc = pre.pc
        /\ fault = NoFault =>
              fetch_reads = {pre.pc, pre.pc + 1}
                /\ fetch_reads \subseteq 0 .. RAM_SIZE - 1

\* C4: the stack pointer is in [0, STACK_SIZE] in every reachable state; a
\* 2NNN with the pointer at STACK_SIZE and a 00EE with the pointer at 0
\* fault and leave the pointer and the stack slots unchanged.
C4_StackPointerBounds ==
    /\ sp \in 0 .. STACK_SIZE
    /\ (Stepped /\ IsCall(op) /\ pre.sp = STACK_SIZE) =>
          fault # NoFault /\ sp = pre.sp /\ stack = pre.stack
    /\ (Stepped /\ op = RET /\ pre.sp = 0) =>
          fault # NoFault /\ sp = pre.sp /\ stack = pre.stack

\* C5: call and return are LIFO.  Every completed 00EE returns to the
\* address right after the call instruction it matches (the innermost call
\* not yet returned from) and restores the stack pointer that call found;
\* a 00EE right after a 2NNN returns to the word after that 2NNN.
C5_CallReturnLifo ==
    (Completed /\ op = RET) =>
        /\ matched # NoCall
        /\ pc = matched.site + 2
        /\ sp = matched.sp0
        /\ IsCall(op2) => pc = pre2.pc + 2 /\ sp = pre2.sp

\* C5's case: the last return of MaxNest nested calls, back at depth 0, the
\* deepest stack slot used.
C5_Witness ==
    /\ Completed /\ op = RET /\ sp = 0 /\ matched.site = START_ADDR
    /\ stack[STACK_SIZE - 1] = START_ADDR + 4 * (STACK_SIZE - 1) + 2

IsDraw(o) == o \div 4096 = 13

\* The display cells the sprite of draw word o covers on machine m: one
\* for every set bit c of row r, at ((VX + r) mod width, (VY + c) mod
\* height), as an index of the display (width * y + x).
SpriteCells(m, o) ==
    LET vx == m.v_reg[NibX(o)]
        vy == m.v_reg[NibY(o)]
        bits == { rc \in (0 .. NibN(o) - 1) \X (0 .. 7) :
                    /\ m.i_reg + rc[1] < RAM_SIZE
                    /\ Bit(m.ram[m.i_reg + rc[1]], rc[2]) = 1 }
    IN  { SCREEN_WIDTH * ((vy + rc[2]) % SCREEN_HEIGHT)
            + ((vx + rc[1]) % SCREEN_WIDTH) : rc \in bits }

\* The last two steps completed one and the same DXYN, with the same I, the
\* same sprite bytes (at least one bit set) and the same anchors.
SameDrawTwice ==
    /\ Completed /\ IsDraw(op) /\ op2 = op
    /\ pre.i_reg = pre2.i_reg /\ pre.ram = pre2.ram
    /\ pre.v_reg[NibX(op)] = pre2.v_reg[NibX(op)]
    /\ pre.v_reg[NibY(op)] = pre2.v_reg[NibY(op)]
    /\ SpriteCells(pre2, op) # {}

\* C6 as stated: the second draw restores the display and VF is 1 after the
\* first draw and 1 after the second.
C6_DrawTwiceFlagsBoth ==
    SameDrawTwice =>
        screen = pre2.screen /\ pre.v_reg[15] = 1 /\ v_reg[15] = 1

\* C6, amended: when both draws complete, the second draw restores the
\* display as it was before the first; VF after the first draw is 1 exactly
\* if a cell the sprite covers was set before it (0 otherwise), and VF
\* after the second is 1 exactly if a cell the sprite covers was clear
\* before the first draw (0 otherwise).
C6_DrawTwiceRestores ==
    SameDrawTwice =>
        LET cells == SpriteCells(pre2, op)
        IN  /\ screen = pre2.screen
            /\ pre.v_reg[15] = (IF \E c \in cells : pre2.screen[c] THEN 1 ELSE 0)
            /\ v_reg[15] = (IF \E c \in cells : ~pre2.screen[c] THEN 1 ELSE 0)

\* C6's case: a sprite drawn twice over an area where some of its cells
\* were lit and some were not.
C6_Witness ==
    /\ SameDrawTwice
    /\ \E c \in SpriteCells(pre2, op) : pre2.screen[c]
    /\ \E c \in SpriteCells(pre2, op) : ~pre2.screen[c]
    /\ pre.v_reg[15] = 1 /\ v_reg[15] = 1 /\ screen = pre2.screen

\* The last step completed 8XYk.
DidAlu(k) == Completed /\ op \div 4096 = 8 /\ NibN(op) = k

\* C9 as stated: after 8XY4, VF is the carry and register X holds the sum
\* mod 256, for every X and Y, VF included.
C9_AddCarryAndSum ==
    DidAlu(4) =>
        LET sum == pre.v_reg[NibX(op)] + pre.v_reg[NibY(op)]
        IN  /\ v_reg[15] = (IF sum > 255 THEN 1 ELSE 0)
            /\ v_reg[NibX(op)] = sum % 256

\* C9, amended: after 8XY4, VF is 1 if VX + VY > 255 and 0 otherwise; for
\* X other than 0xF register X holds (VX + VY) mod 256, and for X = 0xF the
\* register holds the carry, not the sum.
C9_AddCarry ==
    DidAlu(4) =>
        LET sum == pre.v_reg[NibX(op)] + pre.v_reg[NibY(op)]
        IN  /\ v_reg[15] = (IF sum > 255 THEN 1 ELSE 0)
            /\ NibX(op) # 15 => v_reg[NibX(op)] = sum % 256

\* C9's case: 8F14 with VF = 255 and V1 = 255: the sum is 254, the carry 1.
C9_Witness ==
    /\ DidAlu(4) /\ NibX(op) = 15 /\ NibY(op) = 1
    /\ pre.v_reg[15] = 255 /\ pre.v_reg[1] = 255
    /\ v_reg[15] = 1

\* C10 as stated: after 8XY5, VF = 1 iff VX >= VY and register X holds
\* (VX - VY) mod 256; after 8XY7, VF = 1 iff VY >= VX and register X holds
\* (VY - VX) mod 256; for every X and Y.
C10_SubBorrowAndDifference ==
    /\ DidAlu(5) =>
          LET vx == pre.v_reg[NibX(op)]
              vy == pre.v_reg[NibY(op)]
          IN  /\ v_reg[15] = 1 <=> vx >= vy
              /\ v_reg[NibX(op)] = (vx - vy) % 256
    /\ DidAlu(7) =>
          LET vx == pre.v_reg[NibX(op)]
              vy == pre.v_reg[NibY(op)]
          IN  /\ v_reg[15] = 1 <=> vy >= vx
              /\ v_reg[NibX(op)] = (vy - vx) % 256

\* C10, amended: VF is 1 if no borrow occurred and 0 otherwise (8XY5:
\* VX >= VY, 8XY7: VY >= VX); for X other than 0xF register X holds the
\* difference mod 256, and for X = 0xF the register holds the flag.
C10_SubBorrow ==
    /\ DidAlu(5) =>
          LET vx == pre.v_reg[NibX(op)]
              vy == pre.v_reg[NibY(op)]
          IN  /\ v_reg[15] = (IF vx >= vy THEN 1 ELSE 0)
              /\ NibX(op) # 15 => v_reg[NibX(op)] = (vx - vy) % 256
    /\ DidAlu(7) =>
          LET vx == pre.v_reg[NibX(op)]
              vy == pre.v_reg[NibY(op)]
          IN  /\ v_reg[15] = (IF vy >= vx THEN 1 ELSE 0)
              /\ NibX(op) # 15 => v_reg[NibX(op)] = (vy - vx) % 256

\* C10's case: 8F15 with VF = 0 and V1 = 1: the difference is 255, the
\* flag 0.
C10_Witness ==
    /\ DidAlu(5) /\ NibX(op) = 15 /\ NibY(op) = 1
    /\ pre.v_reg[15] = 0 /\ pre.v_reg[1] = 1
    /\ v_reg[15] = 0

\* FX0A: nibbles [0xF, _, 0, 0xA].
IsWait(o) == o \div 4096 = 15 /\ o % 256 = 10

NoKey(ks) == \A k \in DOMAIN ks : ~ks[k]

\* C7: a step that executes FX0A while no key is pressed completes and
\* leaves every field of the machine (PC, VX, the other registers, I,
\* memory, stack, timers, keypad, display) as it was before the step.
C7_WaitNoKeyNoChange ==
    (Stepped /\ IsWait(op) /\ NoKey(pre.keys)) =>
        fault = NoFault /\ Fields(Machine) = Fields(pre)

\* C7's case: the wait of the keypad images stepped with no key pressed.
C7_Witness ==
    /\ Completed /\ IsWait(op) /\ NoKey(pre.keys)
    /\ pre.pc = START_ADDR + 2 /\ pc = pre.pc /\ v_reg[5] = 9

\* PC is at an FX0A.
AtWait == InLoop /\ IsWait(WordAt(Machine))

\* What a step that executed FX0A did: with no key pressed PC is back at
\* the same FX0A and VX is unchanged; with a key pressed VX is the lowest
\* pressed index and PC is 2 past the FX0A.
WaitStep ==
    (Stepped /\ IsWait(op)) =>
        IF NoKey(pre.keys)
        THEN /\ pc = pre.pc /\ WordAt(Machine) = op
             /\ v_reg[NibX(op)] = pre.v_reg[NibX(op)]
        ELSE /\ fault = NoFault
             /\ pc = pre.pc + 2
             /\ pre.keys[v_reg[NibX(op)]]
             /\ \A k \in DOMAIN pre.keys : pre.keys[k] => v_reg[NibX(op)] <= k

\* C8: every step at an FX0A with no key pressed stays at it, the first
\* step with a key pressed sets VX to the lowest pressed index and moves 2
\* past it; and when a key ends up held while the loop keeps stepping, a
\* machine at an FX0A moves past it.
C8_WaitForKey ==
    /\ []WaitStep
    /\ (<>[](~NoKey(keys))) => (AtWait ~> ~AtWait)

\* C8's case: keys 1 and 2 held together end the wait with VX = 1.
C8_Witness ==
    /\ Completed /\ IsWait(op)
    /\ pre.keys[1] /\ pre.keys[2] /\ pre.v_reg[5] = 9
    /\ v_reg[5] = 1 /\ pc = pre.pc + 2

\* The fields a register instruction leaves alone are as before the step,
\* and PC is 2 past the instruction.
OnlyRegisters ==
    /\ pc = pre.pc + 2
    /\ ram = pre.ram /\ screen = pre.screen /\ i_reg = pre.i_reg
    /\ sp = pre.sp /\ stack = pre.stack /\ keys = pre.keys
    /\ dt = pre.dt /\ st = pre.st

\* C11 as stated: after 8XY6, VF is bit 0 of the old VX and register X
\* holds VX >> 1; after 8XYE, VF is bit 7 of the old VX and register X holds
\* (VX << 1) mod 256; for every X and Y, VF included.
C11_ShiftFlagAndValue ==
    /\ DidAlu(6) =>
          /\ v_reg[15] = pre.v_reg[NibX(op)] % 2
          /\ v_reg[NibX(op)] = pre.v_reg[NibX(op)] \div 2
    /\ DidAlu(14) =>
          /\ v_reg[15] = Bit(pre.v_reg[NibX(op)], 7)
          /\ v_reg[NibX(op)] = (pre.v_reg[NibX(op)] * 2) % 256

\* C11, amended: VF is the bit shifted out of the old VX (bit 0 for 8XY6,
\* bit 7 for 8XYE); for X other than 0xF register X holds the shifted value,
\* and for X = 0xF the register holds the flag.  Every other register and
\* field is as before whatever Y and VY are: the state after the step is a
\* function of the state before it in which Y and VY do not occur.
C11_ShiftFlag ==
    /\ DidAlu(6) =>
          /\ OnlyRegisters
          /\ \A r \in 0 .. NUM_REGS - 1 :
                v_reg[r] = IF r = 15 THEN pre.v_reg[NibX(op)] % 2
                           ELSE IF r = NibX(op) THEN pre.v_reg[NibX(op)] \div 2
                           ELSE pre.v_reg[r]
    /\ DidAlu(14) =>
          /\ OnlyRegisters
          /\ \A r \in 0 .. NUM_REGS - 1 :
                v_reg[r] = IF r = 15 THEN Bit(pre.v_reg[NibX(op)], 7)
                           ELSE IF r = NibX(op)
                           THEN (pre.v_reg[NibX(op)] * 2) % 256
                           ELSE pre.v_reg[r]

\* C11's case: 8016 with V0 = 255 and V1 = 128: V0 becomes 127, VF the bit
\* shifted out, V1 stays.
C11_Witness ==
    /\ DidAlu(6) /\ NibX(op) = 0 /\ NibY(op) = 1
    /\ pre.v_reg[0] = 255 /\ pre.v_reg[1] = 128
    /\ v_reg[0] = 127 /\ v_reg[15] = 1 /\ v_reg[1] = 128

IsAddImmediate(o) == o \div 4096 = 7

\* C12: a step that executes 7XNN completes, sets register X to
\* (VX + NN) mod 256 and changes no other register (for X other than 0xF,
\* VF keeps its value) and no other field but PC.
C12_AddImmediateWraps ==
    (Stepped /\ IsAddImmediate(op)) =>
        /\ fault = NoFault
        /\ OnlyRegisters
        /\ \A r \in 0 .. NUM_REGS - 1 :
              v_reg[r] = IF r = NibX(op)
                         THEN (pre.v_reg[r] + (op % 256)) % 256
                         ELSE pre.v_reg[r]

\* C12's case: 70FF with V0 = 255 and VF = 1: V0 wraps to 254, VF stays 1.
C12_Witness ==
    /\ Completed /\ IsAddImmediate(op) /\ NibX(op) = 0 /\ op % 256 = 255
    /\ pre.v_reg[0] = 255 /\ pre.v_reg[15] = 1
    /\ v_reg[0] = 254 /\ v_reg[15] = 1

\* The patterns of the instruction table, a nibble each, -1 for an operand
\* nibble.
InstructionTable ==
    { <<0, 0, 0, 0>>, <<0, 0, 14, 0>>, <<0, 0, 14, 14>>,
      <<5, -1, -1, 0>>, <<9, -1, -1, 0>>,
      <<14, -1, 9, 14>>, <<14, -1, 10, 1>>,
      <<15, -1, 0, 7>>, <<15, -1, 0, 10>>, <<15, -1, 1, 5>>,
      <<15, -1, 1, 8>>, <<15, -1, 1, 14>>, <<15, -1, 2, 9>>,
      <<15, -1, 3, 3>>, <<15, -1, 5, 5>>, <<15, -1, 6, 5>> }
      \cup { <<a, -1, -1, -1>> : a \in {1, 2, 3, 4, 6, 7, 10, 11, 12, 13} }
      \cup { <<8, -1, -1, k>> : k \in (0 .. 7) \cup {14} }

\* Word o matches pattern p.
MatchesPattern(o, p) ==
    \A i \in 1 .. 4 :
        p[i] = -1 \/ p[i] = (o \div (16 ^ (4 - i))) % 16

\* C13: a fetched word matches at most one pattern of the instruction
\* table; a word that matches none ends the step in the unimplemented-opcode
\* fault carrying that word, and a word that matches one never does (the
\* step runs the instruction: it completes, or faults in the instruction).
C13_DecodeTotal ==
    (Stepped /\ op >= 0) =>
        LET hits == { p \in InstructionTable : MatchesPattern(op, p) }
        IN  /\ Cardinality(hits) <= 1
            /\ hits = {} <=> fault = Unimplemented(op)
            /\ hits = {} => fault # NoFault
            /\ hits # {} => fault[1] # Unimplemented(op)[1]

\* C13's case: 01E0, one nibble off the clear-display word, is no
\* instruction and faults with the word itself.
C13_Witness ==
    /\ Faulted /\ op = W(0, 1, 14, 0)
    /\ fault = Unimplemented(W(0, 1, 14, 0))

\* C14: a step or a timer decrement, completed or faulted, leaves the 16
\* key flags as they were; only keypress changes them.
C14_KeypadReadOnly ==
    /\ last \in {"tick", "tick_timers"} => keys = pre.keys
    /\ keys # pre.keys => last = "keypress"

\* C14's case: FX0A took key 1 while keys 1 and 2 were held, and both are
\* still held after the step.
C14_Witness ==
    /\ Completed /\ IsWait(op) /\ pre.keys[1] /\ pre.keys[2]
    /\ v_reg[NibX(op)] = 1 /\ keys = pre.keys /\ keys[1] /\ keys[2]

\* C15: after new() and the load of an image that fits, memory[0..80) is
\* the glyph table, memory from the load offset holds the image bytes
\* verbatim, PC is the load offset, and the registers, I, the stack pointer,
\* the timers, the keypad and the display are zero/false.
C15_LoadedMachine ==
    LET data == Bytes(image)
    IN  (last = "load" /\ START_ADDR + Len(data) <= RAM_SIZE) =>
            /\ fault = NoFault
            /\ \A a \in 0 .. FONTSET_SIZE - 1 : ram[a] = FONTSET[a + 1]
            /\ \A k \in 1 .. Len(data) : ram[START_ADDR + k - 1] = data[k]
            /\ pc = START_ADDR
            /\ \A r \in 0 .. NUM_REGS - 1 : v_reg[r] = 0
            /\ i_reg = 0 /\ sp = 0 /\ dt = 0 /\ st = 0
            /\ \A k \in 0 .. NUM_KEYS - 1 : ~keys[k]
            /\ \A p \in 0 .. SCREEN_WIDTH * SCREEN_HEIGHT - 1 : ~screen[p]

\* C15's case: the image that fills memory to its last byte is loaded,
\* below the glyph table still in place.
C15_Witness ==
    /\ last = "load" /\ image = FullImage
    /\ START_ADDR + 2 * Len(image) = RAM_SIZE
    /\ ram[RAM_SIZE - 1] = 255 /\ ram[START_ADDR] = 18
    /\ ram[0] = FONTSET[1] /\ ram[FONTSET_SIZE - 1] = FONTSET[FONTSET_SIZE]

\* CXNN: nibbles [0xC, _, _, _].
IsRandom(o) == o \div 4096 = 12

\* The machine a second copy of the machine before the last step ends in
\* when its step draws the byte rng.
Copy(rng) == tick(pre, rng).m

C17_DrawTogglesCells ==
    (Stepped /\ IsDraw(op) /\ pre.i_reg + NibN(op) <= RAM_SIZE) =>
        LET cells == SpriteCells(pre, op)
        IN  /\ fault = NoFault
            /\ \A p \in 0 .. SCREEN_WIDTH * SCREEN_HEIGHT - 1 :
                  screen[p] = (IF p \in cells THEN ~pre.screen[p]
                               ELSE pre.screen[p])
            /\ v_reg[15] = (IF \E c \in cells : pre.screen[c] THEN 1 ELSE 0)

\* C19: the assertion at the pixel write of DXYN never fails: no draw ends
\* in its panic, and every cell index a draw computes is below the asserted
\* bound and inside the display buffer.
C19_ScreenIndexAsserted ==
    (Stepped /\ IsDraw(op)) =>
        /\ fault # BadScreenIndex
        /\ \A c \in SpriteCells(pre, op) :
              c < SCREEN_HEIGHT * SCREEN_HEIGHT
                /\ c < SCREEN_WIDTH * SCREEN_HEIGHT

\* EX9E: nibbles [0xE, _, 9, 0xE].
IsSkipIfKey(o) == o \div 4096 = 14 /\ o % 256 = 158

\* EXA1: nibbles [0xE, _, 0xA, 1].
IsSkipIfNoKey(o) == o \div 4096 = 14 /\ o % 256 = 161

\* C20: a step that executes EX9E or EXA1 completes, whatever byte VX
\* holds, reading a key slot in 0..15; EX9E leaves PC 4 past the instruction
\* if key VX is pressed and 2 past it otherwise, EXA1 the other way round.
C20_KeyTestInBounds ==
    (Stepped /\ (IsSkipIfKey(op) \/ IsSkipIfNoKey(op))) =>
        LET vx == pre.v_reg[NibX(op)]
        IN  /\ fault = NoFault
            /\ vx \in 0 .. NUM_KEYS - 1
            /\ IsSkipIfKey(op) =>
                  pc = pre.pc + (IF pre.keys[vx] THEN 4 ELSE 2)
            /\ IsSkipIfNoKey(op) =>
                  pc = pre.pc + (IF pre.keys[vx] THEN 2 ELSE 4)

\* FX65: nibbles [0xF, _, 6, 5].
IsLoadRegs(o) == o \div 4096 = 15 /\ o % 256 = 101

====
